---- MODULE Spec2Model ----
(***************************************************************************)
(* The recommend-movies edge function (supabase/functions/recommend-movies *)
(* /index.ts, the rating-based revision, lines 169-439) as a state machine.*)
(* One request is served at a time; every await of the handler is a        *)
(* position of pc, and the answer of each external collaborator (title     *)
(* lookup, embedding, match_movies, full-record fetch, explanation LLM) is *)
(* chosen by the environment when the corresponding action fires.          *)
(*                                                                         *)
(* The page that calls it (src/pages/Index.tsx) is a second state machine, *)
(* PageSpec: its form, its feedback lists and the requests it awaits, the  *)
(* answers to which are chosen by the environment; PageFairSpec adds that  *)
(* an awaited request settles. One row of its form (src/components/        *)
(* MovieRatingInput.tsx) with its debounced title search is a third,       *)
(* RowSpec.                                                                *)
(*                                                                         *)
(* Numbers are fixed point: similarity and imdb_rating are kept in tenths, *)
(* quantities of [0,1] in units of 1/One, final_score in units of          *)
(* 1/(10*One), the weights being tenths.                                   *)
(***************************************************************************)
EXTENDS Integers, Sequences, FiniteSets, TLC

VARIABLES
    pc,               \* position of the handler: idle, lookup, embed, rpc, fetch, llm, done
    env,              \* Deno.env: which API keys are configured
    req,              \* the request being served
    resp,             \* the Response returned ([status, body]), None before
    calls,            \* external calls issued for this request, in order
    dbMap,            \* lower-cased title -> corpus row (line 218)
    ratedTitlesLower, \* line 229
    tasteText,        \* line 248
    embedding,        \* the query vector (line 293)
    matches,          \* rows of match_movies (line 299)
    likedGenres,      \* genre -> max rating (line 316)
    scored,           \* line 329
    candidates,       \* diverseResults without _primaryGenre (line 365)
    embeddingResponse,\* what the embedding call answered (line 269), None before
    matchError,       \* the error of match_movies (line 299), None before the answer
    moviesError,      \* the error of the full-record fetch (line 308)
    matchedMovies,    \* the rows of the full-record fetch (line 308)
    llmResponse,      \* what the explanation call answered (line 380), None before
    ratedMovies,      \* the page: the rows of the form (Index.tsx line 37)
    likes,            \* the likes textarea
    dislikes,         \* the dislikes textarea
    matchCount,       \* the Results input
    movies,           \* the recommendations on display
    isLoading,
    moreLike,         \* feedback given since the last fresh recommendation
    lessLike,
    pending,          \* the payloads of the invokes awaiting their answer
    suggestions,      \* a row (MovieRatingInput.tsx lines 34-39): titles suggested
    showSuggestions,
    titleFound,       \* None (null), Some(TRUE) or Some(FALSE)
    searching,
    movieDetails,
    debounceRef,      \* the pending timer: the query and the props.value it closed over
    searches,         \* the searches awaited, each with the props.value it closed over
    lookups           \* the titles whose lookup (selectSuggestion) is awaited

answers == <<embeddingResponse, matchError, moviesError, matchedMovies, llmResponse>>

serverVars == <<pc, env, req, resp, calls, dbMap, ratedTitlesLower, tasteText,
                embedding, matches, likedGenres, scored, candidates, answers>>

clientVars == <<ratedMovies, likes, dislikes, matchCount, movies, isLoading, moreLike,
                lessLike, pending>>

rowVars == <<suggestions, showSuggestions, titleFound, searching, movieDetails,
             debounceRef, searches, lookups>>

vars == <<serverVars, clientVars, rowVars>>

----------------------------------------------------------------------------
(* Optional values (undefined / null in the source): <<>> or <<x>>.        *)

None == <<>>
Some(x) == <<x>>
IsSome(o) == Len(o) = 1
Get(o) == o[1]
\* JavaScript's a ?? b
OrElse(o, d) == IF IsSome(o) THEN Get(o) ELSE d

Range(s) == {s[i] : i \in DOMAIN s}

----------------------------------------------------------------------------
(* Strings that the code lower-cases are sequences of characters.          *)

UpperToLower ==
    [c \in {"U", "P", "I", "T", "E", "D", "G", "O", "B", "Z"} |->
        CASE c = "U" -> "u" [] c = "P" -> "p" [] c = "I" -> "i"
          [] c = "T" -> "t" [] c = "E" -> "e" [] c = "D" -> "d"
          [] c = "G" -> "g" [] c = "O" -> "o" [] c = "B" -> "b"
          [] c = "Z" -> "z"]

\* String.prototype.toLowerCase
toLowerCase(s) ==
    [i \in DOMAIN s |-> IF s[i] \in DOMAIN UpperToLower THEN UpperToLower[s[i]] ELSE s[i]]

----------------------------------------------------------------------------
(* Bounds of the model.                                                    *)

\* longest ratings array a request carries
MaxRatings == 2
\* largest matchCount a request carries
MaxMatchCount == 3

----------------------------------------------------------------------------
(* Constants of the program.                                               *)

\* matchCount = 10 when the body has none
DefaultMatchCount == 10
\* match_count passed to match_movies
RetrievalLimit == 50
\* the cap one too high: if (count >= 3) continue
GenreCapLoose == 2 + 1
\* if (count >= 2) continue
GenreCap == 2
\* if (r.rating >= 8) strongLikes
StrongLikeMin == 8
\* else if (r.rating >= 5) neutral
NeutralMin == 5
\* movie.imdb_rating ?? 5
ImdbDefault == 5
\* the similarity weight doubled: 1.2 * similarity
WSimilarityDouble == 6 + 6
\* 0.6 * similarity, 0.2 * normalizedImdb, 0.2 * affinity, in tenths
WSimilarity == 6
WImdb == 2
WAffinity == 2

\* fixed point: 1.0 of a [0,1] quantity; divisible by every genre count of the corpus
One == 10 * 10 * 6

----------------------------------------------------------------------------
(* The corpus: table imdb_movies (unnamed/part_002).  imdb_rating is       *)
(* NUMERIC(3,1), kept in tenths (the column admits values above 10.0);     *)
(* embedded says whether embedding is set.  movie_title is not unique.     *)

Row(id, title, genres, imdb, overview, embedded) ==
    [id |-> id, movie_title |-> title, genres |-> genres, imdb_rating |-> imdb,
     overview |-> overview, embedded |-> embedded]

imdb_movies ==
    << Row(1, <<"U", "p">>, <<"Animation", "Comedy">>, Some(83), Some("o1"), TRUE),
       Row(2, <<"U", "P">>, <<"Comedy">>, Some(81), None, TRUE),
       Row(3, <<"I", "t">>, <<"Horror">>, None, Some("o3"), TRUE),
       Row(4, <<"E", "d">>, <<"Comedy", "Drama">>, Some(0), Some("o4"), TRUE),
       Row(5, <<"P", "i">>, <<>>, Some(120), Some("o5"), TRUE),
       Row(6, <<"G", "o">>, <<"Comedy", "Comedy", "Crime">>, Some(75), None, TRUE),
       Row(7, <<"O", "x">>, <<"Drama">>, Some(90), Some("o7"), FALSE),
       Row(8, <<"B", "e">>, <<"Comedy">>, Some(60), Some("o8"), TRUE) >>

Ids == {imdb_movies[i].id : i \in DOMAIN imdb_movies}
RowOf(id) == CHOOSE r \in Range(imdb_movies) : r.id = id

\* The query vectors the embedding capability may return, and 1 - cosine distance
\* of each to the corpus vectors, in tenths (a value of [-1, 1]).
QueryVectors == {1, 2}
Similarity ==
    [q \in QueryVectors |->
        IF q = 1
        THEN [id \in Ids |-> CASE id = 1 -> 9 [] id = 2 -> 8 [] id = 3 -> 3 [] id = 4 -> 7
                               [] id = 5 -> -1 [] id = 6 -> 6 [] id = 7 -> 10 [] id = 8 -> 5]
        ELSE [id \in Ids |-> CASE id = 1 -> 2 [] id = 2 -> 4 [] id = 3 -> 10 [] id = 4 -> 5
                               [] id = 5 -> 9 [] id = 6 -> -2 [] id = 7 -> 1 [] id = 8 -> 7]]

----------------------------------------------------------------------------
(* Requests.                                                               *)

\* RatingInput (lines 178-182); a field the JSON lacks is None
RatingInput(title, rating, description) ==
    [title |-> title, rating |-> rating, description |-> description]

RatingInputs ==
    { RatingInput(Some(<<"U", "p">>), 9, None),
      RatingInput(Some(<<"u", "p">>), 6, None),
      RatingInput(Some(<<"Z", "e", "d">>), 0, Some("a heist film")),
      RatingInput(Some(<<"I", "t">>), 11, None),
      RatingInput(Some(<<"U", "P">>), 8, None),
      RatingInput(Some(<<"Z", "e", "d">>), 4, Some("")),
      RatingInput(None, 5, None) }

SeqsUpTo(S, n) == UNION {[1..k -> S] : k \in 0..n}

\* the ratings field: absent, a value that is no array, or an array
RatingsFields ==
    {[kind |-> "missing", items |-> <<>>], [kind |-> "notArray", items |-> <<>>]}
        \cup {[kind |-> "array", items |-> s] : s \in SeqsUpTo(RatingInputs, MaxRatings)}

\* likes and dislikes of RequestBody
FreeTexts ==
    { <<None, None>>, <<Some("plot twists"), None>>, <<Some(""), Some("slow pacing")>> }

MatchCounts == {None} \cup {Some(n) : n \in 0..MaxMatchCount}

Body(kind, ratings, texts, count) ==
    [kind |-> kind, ratings |-> ratings, likes |-> texts[1], dislikes |-> texts[2],
     matchCount |-> count, description |-> None]

\* the body the description-based client sends (unnamed/part_000, line 44):
\* { description, matchCount } and no ratings
SingleQuery(description, count) ==
    [Body("object", [kind |-> "missing", items |-> <<>>], <<None, None>>, count)
        EXCEPT !.description = Some(description)]

\* what req.json() is given: text that is no JSON, the JSON null, or a JSON object
Bodies ==
    { Body(k, [kind |-> "missing", items |-> <<>>], <<None, None>>, None) :
        k \in {"unparseable", "null"} }
        \cup { Body("object", r, t, m) : r \in RatingsFields, t \in FreeTexts, m \in MatchCounts }
        \cup { SingleQuery("a space adventure", m) : m \in MatchCounts \ {None} }

\* const { ..., matchCount = 10 } = await req.json()
matchCountOf(body) == OrElse(body.matchCount, DefaultMatchCount)

\* the validation without its length test: !ratings || !Array.isArray(ratings)
RatingsRejectedUnlessArray(ratings) == ratings.kind # "array"

\* !ratings || !Array.isArray(ratings) || ratings.length === 0
RatingsRejected(ratings) == ratings.kind # "array" \/ Len(ratings.items) = 0

----------------------------------------------------------------------------
(* Title lookup and the taste document (lines 211-264).                    *)

Reverse(s) == [i \in DOMAIN s |-> s[Len(s) + 1 - i]]

Orders == {"asc", "desc"}

\* rows come back in an order the query does not fix
InOrder(rows, order) == IF order = "asc" THEN rows ELSE Reverse(rows)

\* .from("imdb_movies").select(...).in("movie_title", titles): exact match
LookupTitles(titles, order) ==
    LET Hit(r) == Some(r.movie_title) \in titles
    IN  InOrder(SelectSeq(imdb_movies, Hit), order)

\* for (const m of dbMovies) dbMap.set(m.movie_title.toLowerCase(), m): the last row wins
dbMapOf(dbMovies) ==
    LET keys == {toLowerCase(dbMovies[i].movie_title) : i \in DOMAIN dbMovies}
        Last(k) == CHOOSE i \in DOMAIN dbMovies :
                      /\ toLowerCase(dbMovies[i].movie_title) = k
                      /\ \A j \in DOMAIN dbMovies :
                            toLowerCase(dbMovies[j].movie_title) = k => j <= i
    IN  [k \in keys |-> dbMovies[Last(k)]]

\* ratedTitlesLower.add(r.title.toLowerCase()) for every r
ratedTitlesLowerOf(ratings) == {toLowerCase(Get(ratings[i].title)) : i \in DOMAIN ratings}

\* the line of one rating (lines 233-241)
TasteLine(r, map) ==
    LET key == toLowerCase(Get(r.title))
    IN  IF key \in DOMAIN map
        THEN [found |-> TRUE, title |-> map[key].movie_title, genres |-> map[key].genres,
              text |-> OrElse(map[key].overview, "N/A"), rating |-> r.rating]
        ELSE [found |-> FALSE, title |-> Get(r.title), genres |-> <<>>,
              text |-> OrElse(r.description, "No description"), rating |-> r.rating]

\* the buckets with a rating of exactly 8 counted as neutral
BucketAbove(r) ==
    IF r.rating > StrongLikeMin THEN "strongLikes"
    ELSE IF r.rating >= NeutralMin THEN "neutral"
    ELSE "dislikesList"

\* lines 243-245
Bucket(r) ==
    IF r.rating >= StrongLikeMin THEN "strongLikes"
    ELSE IF r.rating >= NeutralMin THEN "neutral"
    ELSE "dislikesList"

LinesOf(ratings, map, bucket) ==
    LET In(r) == Bucket(r) = bucket
        rs == SelectSeq(ratings, In)
    IN  [i \in DOMAIN rs |-> TasteLine(rs[i], map)]

Section(heading, lines, text) == [heading |-> heading, lines |-> lines, text |-> text]

\* if (likes): a string that is present and not empty
Truthy(text) == IsSome(text) /\ Get(text) # ""

\* lines 248-264
tasteTextOf(ratings, map, likesText, dislikesText) ==
    LET strongLikes == LinesOf(ratings, map, "strongLikes")
        neutral == LinesOf(ratings, map, "neutral")
        dislikesList == LinesOf(ratings, map, "dislikesList")
    IN  <<Section("USER MOVIE PREFERENCES", <<>>, "")>>
        \o (IF Len(strongLikes) > 0
            THEN <<Section("STRONG LIKES (rating >= 8):", strongLikes, "")>> ELSE <<>>)
        \o (IF Len(neutral) > 0
            THEN <<Section("NEUTRAL (rating 5-7):", neutral, "")>> ELSE <<>>)
        \o (IF Len(dislikesList) > 0
            THEN <<Section("DISLIKES (rating <= 4):", dislikesList, "")>> ELSE <<>>)
        \o (IF Truthy(likesText) THEN <<Section("MORE OF THIS:", <<>>, Get(likesText))>> ELSE <<>>)
        \o (IF Truthy(dislikesText) THEN <<Section("LESS OF THIS:", <<>>, Get(dislikesText))>> ELSE <<>>)

----------------------------------------------------------------------------
(* Embedding and retrieval (lines 268-313).                                *)

\* what the embedding endpoint may answer: a vector, a body without one,
\* throttling, or another failure
EmbeddingResponses ==
    {[status |-> 200, values |-> Some(q)] : q \in QueryVectors}
        \cup {[status |-> 200, values |-> None], [status |-> 429, values |-> None],
              [status |-> 500, values |-> None]}

\* Response.ok
Ok(status) == status \in 200..299

RateLimitedNever(status) == FALSE

\* line 284: embeddingResponse.status === 429
RateLimited(status) == status = 429

RECURSIVE BySimilarity(_, _)
\* ORDER BY m.embedding <=> query_embedding: the ids of S by descending similarity
BySimilarity(q, S) ==
    IF S = {} THEN <<>>
    ELSE LET top == CHOOSE id \in S :
                       \A other \in S :
                          \/ Similarity[q][id] > Similarity[q][other]
                          \/ Similarity[q][id] = Similarity[q][other] /\ id <= other
         IN  <<top>> \o BySimilarity(q, S \ {top})

Take(s, n) == SubSeq(s, 1, IF n < Len(s) THEN n ELSE Len(s))

\* match_movies(query_embedding, match_count) (migration 20260225140746)
match_movies(q, match_count) ==
    LET embedded == {id \in Ids : RowOf(id).embedded}
        ordered == Take(BySimilarity(q, embedded), match_count)
    IN  [i \in DOMAIN ordered |-> [id |-> ordered[i], similarity |-> Similarity[q][ordered[i]]]]

\* .from("imdb_movies").select(...).in("id", matchIds), less the rows the table lost
FetchMovies(matchIds, missing, order) ==
    LET Hit(r) == r.id \in matchIds /\ r.id \notin missing
    IN  InOrder(SelectSeq(imdb_movies, Hit), order)

----------------------------------------------------------------------------
(* Scoring (lines 315-350).                                                *)

\* the later value, whatever the earlier one
MaxOverwriting(a, b) == b

Max(a, b) == IF a >= b THEN a ELSE b

RECURSIVE SetGenres(_, _, _, _)
\* for (const g of found.genres) likedGenres.set(g, Math.max(likedGenres.get(g) ?? 0, r.rating))
SetGenres(map, genres, i, rating) ==
    IF i > Len(genres) THEN map
    ELSE LET g == genres[i]
             old == IF g \in DOMAIN map THEN map[g] ELSE 0
             next == [k \in DOMAIN map \cup {g} |-> IF k = g THEN Max(old, rating) ELSE map[k]]
         IN  SetGenres(next, genres, i + 1, rating)

RECURSIVE likedGenresLoop(_, _, _, _)
\* lines 316-326
likedGenresLoop(map, ratings, i, db) ==
    IF i > Len(ratings) THEN map
    ELSE LET r == ratings[i]
             key == toLowerCase(Get(r.title))
         IN  IF r.rating >= StrongLikeMin /\ key \in DOMAIN db
             THEN likedGenresLoop(SetGenres(map, db[key].genres, 1, r.rating), ratings, i + 1, db)
             ELSE likedGenresLoop(map, ratings, i + 1, db)

likedGenresOf(ratings, db) == likedGenresLoop(<<>>, ratings, 1, db)

\* the similarity read at the position movie.id of matches instead of at its match
similarityAtPosition(movie, ms) ==
    IF movie.id \in DOMAIN ms THEN ms[movie.id].similarity ELSE 0

\* matches.find((m) => m.id === movie.id)?.similarity ?? 0, in tenths
similarityOf(movie, ms) ==
    IF \E i \in DOMAIN ms : ms[i].id = movie.id
    THEN ms[CHOOSE i \in DOMAIN ms :
                ms[i].id = movie.id /\ \A j \in DOMAIN ms : ms[j].id = movie.id => i <= j].similarity
    ELSE 0

\* the default taken with || instead of ??: a rating of 0 becomes 5 as well
normalizedImdbFalsy(movie) ==
    ((IF movie.imdb_rating = None \/ movie.imdb_rating = Some(0)
      THEN ImdbDefault * 10 ELSE Get(movie.imdb_rating)) * One) \div (10 * 10)

\* (movie.imdb_rating ?? 5) / 10, in units of 1/One
normalizedImdbOf(movie) == (OrElse(movie.imdb_rating, ImdbDefault * 10) * One) \div (10 * 10)

RECURSIVE genreHitsLoop(_, _, _)
\* for (const g of genres) if (likedGenres.has(g)) genreHits++
genreHitsLoop(genres, i, liked) ==
    IF i > Len(genres) THEN 0
    ELSE (IF genres[i] \in DOMAIN liked THEN 1 ELSE 0) + genreHitsLoop(genres, i + 1, liked)

\* lines 336-343, in units of 1/One
affinityOf(genres, liked) ==
    IF Cardinality(DOMAIN liked) > 0 /\ Len(genres) > 0
    THEN (genreHitsLoop(genres, 1, liked) * One) \div Len(genres)
    ELSE 0

\* 0.6 * similarity + 0.2 * normalizedImdb + 0.2 * affinity, in units of 1/(10*One)
finalScoreOf(similarity, normalizedImdb, affinity) ==
    WSimilarity * ((similarity * One) \div 10) + WImdb * normalizedImdb + WAffinity * affinity

\* genres[0] ?? "Unknown"
primaryGenreOf(genres) == IF Len(genres) > 0 THEN genres[1] ELSE "Unknown"

\* the object of line 347
ScoreMovie(movie, ms, liked) ==
    LET similarity == similarityOf(movie, ms)
    IN  [id |-> movie.id, movie_title |-> movie.movie_title, genres |-> movie.genres,
         imdb_rating |-> movie.imdb_rating, overview |-> movie.overview,
         similarity |-> similarity,
         final_score |-> finalScoreOf(similarity, normalizedImdbOf(movie),
                                      affinityOf(movie.genres, liked)),
         _primaryGenre |-> primaryGenreOf(movie.genres)]

\* the filter without lower-casing the candidate: !ratedTitlesLower.has(movie.movie_title)
NotRatedAsStored(movie, rated) == movie.movie_title \notin rated

\* !ratedTitlesLower.has(movie.movie_title.toLowerCase())
NotRated(movie, rated) == toLowerCase(movie.movie_title) \notin rated

\* the comparator reversed: (a, b) => a.final_score - b.final_score
BeforeAscending(a, b) == a.final_score <= b.final_score

\* a comes before b under (a, b) => b.final_score - a.final_score
Before(a, b) == a.final_score >= b.final_score

RECURSIVE Insert(_, _)
\* x put behind every element that is not behind it: Array.prototype.sort is stable
Insert(sorted, x) ==
    IF sorted = <<>> THEN <<x>>
    ELSE IF Before(Head(sorted), x) THEN <<Head(sorted)>> \o Insert(Tail(sorted), x)
    ELSE <<x>> \o sorted

RECURSIVE SortByScore(_)
SortByScore(s) ==
    IF s = <<>> THEN <<>> ELSE Insert(SortByScore(SubSeq(s, 1, Len(s) - 1)), s[Len(s)])

\* lines 329-350
scoredOf(rows, ms, liked, rated) ==
    LET mapped == [i \in DOMAIN rows |-> ScoreMovie(rows[i], ms, liked)]
        Keep(m) == NotRated(m, rated)
    IN  SortByScore(SelectSeq(mapped, Keep))

----------------------------------------------------------------------------
(* Diversity control (lines 352-365).                                      *)

RECURSIVE diverseLoop(_, _, _, _, _)
\* for (const movie of scored) { ... }: genreCounts is a function on the genres seen
diverseLoop(list, i, genreCounts, diverseResults, limit) ==
    IF i > Len(list) THEN diverseResults
    ELSE LET movie == list[i]
             g == movie._primaryGenre
             count == IF g \in DOMAIN genreCounts THEN genreCounts[g] ELSE 0
         IN  IF count >= GenreCap
             THEN diverseLoop(list, i + 1, genreCounts, diverseResults, limit)
             ELSE LET counts == [k \in DOMAIN genreCounts \cup {g} |->
                                    IF k = g THEN count + 1 ELSE genreCounts[k]]
                      pushed == Append(diverseResults, movie)
                  IN  IF Len(pushed) >= limit
                      THEN pushed
                      ELSE diverseLoop(list, i + 1, counts, pushed, limit)

diverseResultsOf(list, limit) == diverseLoop(list, 1, <<>>, <<>>, limit)

\* diverseResults.map(({ _primaryGenre, ...rest }) => rest)
Candidate(m) ==
    [id |-> m.id, movie_title |-> m.movie_title, genres |-> m.genres,
     imdb_rating |-> m.imdb_rating, overview |-> m.overview,
     similarity |-> m.similarity, final_score |-> m.final_score]

candidatesOf(diverseResults) == [i \in DOMAIN diverseResults |-> Candidate(diverseResults[i])]

----------------------------------------------------------------------------
(* Explanations (lines 367-427).                                           *)

\* What the gateway may answer for the candidates cs: the fetch rejects, a status
\* that is not ok, content that is no JSON array, or an array whose elements are
\* {id, explanation} objects (Some) or null (None).
LlmResponses(cs) ==
    LET entry(i) == Some([id |-> cs[i].id, explanation |-> "why"])
    IN  {[kind |-> k, items |-> <<>>] : k \in {"rejects", "notOk", "malformed", "array"}}
            \cup {[kind |-> "array", items |-> [i \in DOMAIN cs |-> entry(i)]]}
            \cup (IF Len(cs) > 0
                  THEN {[kind |-> "array", items |-> <<entry(1), None>>]}
                  ELSE {})

RECURSIVE explanationLoop(_, _, _)
\* for (const e of explanations) explanationMap.set(e.id, e.explanation); reading e.id
\* of null throws into the catch of line 408, which keeps what was set
explanationLoop(map, items, i) ==
    IF i > Len(items) THEN map
    ELSE IF items[i] = None THEN map
    ELSE LET e == Get(items[i])
         IN  explanationLoop([k \in DOMAIN map \cup {e.id} |->
                                 IF k = e.id THEN e.explanation ELSE map[k]], items, i + 1)

\* lines 398-413
explanationMapOf(r) == IF r.kind = "array" THEN explanationLoop(<<>>, r.items, 1) ELSE <<>>

\* lines 415-427
recommendationsOf(cs, explanationMap) ==
    [i \in DOMAIN cs |->
        [id |-> cs[i].id, movie_title |-> cs[i].movie_title, genres |-> cs[i].genres,
         imdb_rating |-> cs[i].imdb_rating, overview |-> cs[i].overview,
         similarity |-> cs[i].similarity, final_score |-> cs[i].final_score,
         explanation |-> IF cs[i].id \in DOMAIN explanationMap
                         THEN Some(explanationMap[cs[i].id]) ELSE None]]

----------------------------------------------------------------------------
(* The page (src/pages/Index.tsx): the form, the feedback lists, the       *)
(* delivered recommendations and the requests awaiting their answer.       *)
(* A text is the sequence of its characters; a genre name counts as one.   *)

MIN_MOVIES == 2
MAX_MOVIES == 7

\* rows the model lets the form grow to
MaxRows == 3

DEFAULT_MOVIE == [title |-> <<>>, rating |-> 5, description |-> None]

\* what a MovieRatingInput hands to onChange: a custom title with its rating and
\* description, as typed
RowValues ==
    { [title |-> <<" ", "Z", "e", "d">>, rating |-> 4, description |-> Some(<<"o", "k", " ">>)] }

\* what is typed into the likes and the dislikes textarea
TypedTexts == { <<" ", "n", "o", "i", "r", " ">> }

\* what is typed into the Results input: nothing that parses as a number
TypedCounts == {None}

RECURSIVE trimStart(_)
trimStart(t) == IF t # <<>> /\ Head(t) = " " THEN trimStart(Tail(t)) ELSE t

RECURSIVE trimEnd(_)
trimEnd(t) == IF t # <<>> /\ t[Len(t)] = " " THEN trimEnd(SubSeq(t, 1, Len(t) - 1)) ELSE t

\* String.prototype.trim
trim(t) == trimEnd(trimStart(t))

RECURSIVE join(_, _)
\* Array.prototype.join
join(parts, separator) ==
    IF parts = <<>> THEN <<>>
    ELSE IF Len(parts) = 1 THEN parts[1]
    ELSE parts[1] \o separator \o join(Tail(parts), separator)

\* .filter(Boolean) on texts: the empty text is dropped
filterBoolean(parts) == LET NonEmpty(t) == t # <<>> IN SelectSeq(parts, NonEmpty)

\* `${f.title} (${f.genres.join(", ")})`
fragment(f) ==
    f.title \o <<" ", "(">> \o join([i \in DOMAIN f.genres |-> <<f.genres[i]>>], <<",", " ">>)
        \o <<")">>

\* a property is spread into the payload only when its text is truthy
spread(t) == IF t # <<>> THEN Some(t) ELSE None

\* lines 72-96, on the state it closes over
payloadOf(rows, likesText, dislikesText, count, extraMoreLike, extraLessLike) ==
    LET moreLikeText == join([i \in DOMAIN extraMoreLike |-> fragment(extraMoreLike[i])],
                             <<";", " ">>)
        lessLikeText == join([i \in DOMAIN extraLessLike |-> fragment(extraLessLike[i])],
                             <<";", " ">>)
        combinedLikes == join(filterBoolean(<<trim(likesText), moreLikeText>>), <<".", " ">>)
        combinedDislikes ==
            join(filterBoolean(<<trim(dislikesText), lessLikeText>>), <<".", " ">>)
    IN  [ratings |-> [i \in DOMAIN rows |->
                        [title |-> trim(rows[i].title),
                         rating |-> rows[i].rating,
                         description |->
                            IF rows[i].description # None /\ Get(rows[i].description) # <<>>
                            THEN Some(trim(Get(rows[i].description))) ELSE None]],
         likes |-> spread(combinedLikes),
         dislikes |-> spread(combinedDislikes),
         matchCount |-> count]

\* the payload built from the lists of the last render instead of the new ones
buildPayloadStale(extraMoreLike, extraLessLike) ==
    payloadOf(ratedMovies, likes, dislikes, matchCount, moreLike, lessLike)

buildPayload(extraMoreLike, extraLessLike) ==
    payloadOf(ratedMovies, likes, dislikes, matchCount, extraMoreLike, extraLessLike)

\* lines 63-70
canSubmit ==
    /\ \A i \in DOMAIN ratedMovies :
          /\ trim(ratedMovies[i].title) # <<>>
          /\ IF ratedMovies[i].description = None THEN TRUE
             ELSE trim(Get(ratedMovies[i].description)) # <<>>
    /\ matchCount >= 1
    /\ matchCount <= 20

\* the titles of the more-like list alone
feedbackTitlesOfMore == {moreLike[i].title : i \in DOMAIN moreLike}

\* lines 135-138
feedbackTitles ==
    {moreLike[i].title : i \in DOMAIN moreLike} \cup {lessLike[i].title : i \in DOMAIN lessLike}

\* a recommendation as the page uses it
Movie(id) == [id |-> id, movie_title |-> RowOf(id).movie_title, genres |-> RowOf(id).genres]

\* the movies the function answers with
DeliveredIds == {1, 5}

\* what supabase.functions.invoke resolves to: data with recommendations (absent, or
\* a list without repetition), or an error (error, data.error, or data is null)
Deliveries ==
    {[kind |-> "error", recommendations |-> None], [kind |-> "data", recommendations |-> None]}
        \cup {[kind |-> "data", recommendations |-> Some(<<>>)]}
        \cup {[kind |-> "data", recommendations |-> Some(<<Movie(a)>>)] : a \in DeliveredIds}
        \cup {[kind |-> "data", recommendations |-> Some(<<Movie(p[1]), Movie(p[2])>>)] :
                p \in {q \in DeliveredIds \X DeliveredIds : q[1] # q[2]}}

PageInit ==
    /\ ratedMovies = [i \in 1..MIN_MOVIES |-> DEFAULT_MOVIE]
    /\ likes = <<>>
    /\ dislikes = <<>>
    /\ matchCount = 5
    /\ movies = <<>>
    /\ isLoading = FALSE
    /\ moreLike = <<>>
    /\ lessLike = <<>>
    /\ pending = <<>>

\* lines 49-51
updateMovie(index, value) ==
    /\ index \in DOMAIN ratedMovies
    /\ ratedMovies' = [ratedMovies EXCEPT ![index] = value]
    /\ UNCHANGED <<likes, dislikes, matchCount, movies, isLoading, moreLike, lessLike, pending>>
    /\ UNCHANGED <<serverVars, rowVars>>

\* lines 53-56
removeMovie(index) ==
    /\ index \in DOMAIN ratedMovies
    /\ Len(ratedMovies) > MIN_MOVIES
    /\ ratedMovies' = [i \in 1..(Len(ratedMovies) - 1) |->
                          IF i < index THEN ratedMovies[i] ELSE ratedMovies[i + 1]]
    /\ UNCHANGED <<likes, dislikes, matchCount, movies, isLoading, moreLike, lessLike, pending>>
    /\ UNCHANGED <<serverVars, rowVars>>

\* lines 58-61
addMovie ==
    /\ Len(ratedMovies) < MAX_MOVIES
    /\ Len(ratedMovies) < MaxRows
    /\ ratedMovies' = Append(ratedMovies, DEFAULT_MOVIE)
    /\ UNCHANGED <<likes, dislikes, matchCount, movies, isLoading, moreLike, lessLike, pending>>
    /\ UNCHANGED <<serverVars, rowVars>>

\* line 188
setLikes(value) ==
    /\ likes' = value
    /\ UNCHANGED <<ratedMovies, dislikes, matchCount, movies, isLoading, moreLike, lessLike,
                   pending>>
    /\ UNCHANGED <<serverVars, rowVars>>

\* line 201
setDislikes(value) ==
    /\ dislikes' = value
    /\ UNCHANGED <<ratedMovies, likes, matchCount, movies, isLoading, moreLike, lessLike,
                   pending>>
    /\ UNCHANGED <<serverVars, rowVars>>

\* line 216: Math.max(1, Math.min(20, parseInt(e.target.value) || 1))
setMatchCount(typed) ==
    /\ matchCount' = LET parsed == IF typed = None \/ Get(typed) = 0 THEN 1 ELSE Get(typed)
                         capped == IF parsed < 20 THEN parsed ELSE 20
                     IN  Max(1, capped)
    /\ UNCHANGED <<ratedMovies, likes, dislikes, movies, isLoading, moreLike, lessLike,
                   pending>>
    /\ UNCHANGED <<serverVars, rowVars>>

\* lines 98-104: the request is sent and its answer awaited
runRecommendation(payload) ==
    /\ isLoading' = TRUE
    /\ movies' = <<>>
    /\ pending' = Append(pending, payload)

\* handleRecommend behind a button that stays enabled while loading
handleRecommendWhileLoading ==
    /\ canSubmit
    /\ moreLike' = <<>>
    /\ lessLike' = <<>>
    /\ runRecommendation(buildPayload(<<>>, <<>>))
    /\ UNCHANGED <<ratedMovies, likes, dislikes, matchCount>>
    /\ UNCHANGED <<serverVars, rowVars>>

\* lines 120-124, behind the button of line 223 (disabled = !canSubmit || isLoading)
handleRecommend ==
    /\ canSubmit
    /\ ~isLoading
    /\ moreLike' = <<>>
    /\ lessLike' = <<>>
    /\ runRecommendation(buildPayload(<<>>, <<>>))
    /\ UNCHANGED <<ratedMovies, likes, dislikes, matchCount>>
    /\ UNCHANGED <<serverVars, rowVars>>

\* lines 126-133, behind the buttons of lines 305-328: shown for a delivered movie
\* whose title is not in feedbackTitles, disabled while loading
handleFeedback(i, type) ==
    /\ i \in DOMAIN movies
    /\ movies[i].movie_title \notin feedbackTitles
    /\ ~isLoading
    /\ LET feedback == [title |-> movies[i].movie_title, genres |-> movies[i].genres]
           nextMore == IF type = "more" THEN Append(moreLike, feedback) ELSE moreLike
           nextLess == IF type = "less" THEN Append(lessLike, feedback) ELSE lessLike
       IN  /\ moreLike' = nextMore
           /\ lessLike' = nextLess
           /\ runRecommendation(buildPayload(nextMore, nextLess))
    /\ UNCHANGED <<ratedMovies, likes, dislikes, matchCount>>
    /\ UNCHANGED <<serverVars, rowVars>>

\* the invoke resolves in a runRecommendation without its finally block
InvokeReturnWithoutFinally(k, r) ==
    /\ k \in DOMAIN pending
    /\ pending' = [i \in 1..(Len(pending) - 1) |-> IF i < k THEN pending[i] ELSE pending[i + 1]]
    /\ movies' = IF r.kind = "data" THEN OrElse(r.recommendations, <<>>) ELSE movies
    /\ isLoading' = IF r.kind = "data" THEN FALSE ELSE isLoading
    /\ UNCHANGED <<ratedMovies, likes, dislikes, matchCount, moreLike, lessLike>>
    /\ UNCHANGED <<serverVars, rowVars>>

\* lines 102-118: the invoke of the k-th awaited request resolves
InvokeReturn(k, r) ==
    /\ k \in DOMAIN pending
    /\ pending' = [i \in 1..(Len(pending) - 1) |-> IF i < k THEN pending[i] ELSE pending[i + 1]]
    /\ movies' = IF r.kind = "data" THEN OrElse(r.recommendations, <<>>) ELSE movies
    /\ isLoading' = FALSE
    /\ UNCHANGED <<ratedMovies, likes, dislikes, matchCount, moreLike, lessLike>>
    /\ UNCHANGED <<serverVars, rowVars>>

----------------------------------------------------------------------------
(* One row of the form (src/components/MovieRatingInput.tsx): the row at   *)
(* RowIndex with its own state, its debounce timer and the queries it      *)
(* awaits. A callback works on the props of the render that created it, so *)
(* a timer and an awaited search carry the value they closed over.         *)

\* the row whose component is modelled
RowIndex == 1

\* queries the model lets a row await at once, searches and lookups each
MaxAwaited == 1

\* .limit(8)
SearchLimit == 8

\* the props of the last render
props == [index |-> RowIndex, value |-> ratedMovies[RowIndex]]

\* what is typed into the title input
TypedTitles == { <<"U">>, <<"U", "p">>, <<"Z", "z">> }

\* where the slider is moved to
SliderValues == {9}

\* what is typed into the description textarea
TypedDescriptions == { <<"o", "k">> }

\* t ILIKE %q%
ilike(t, q) ==
    \E k \in 0..(Len(t) - Len(q)) : SubSeq(toLowerCase(t), k + 1, k + Len(q)) = toLowerCase(q)

\* MovieDetails (lines 17-24)
Details(r) == [movie_title |-> r.movie_title, genres |-> r.genres, imdb_rating |-> r.imdb_rating]

\* lines 60-64: the rows the search query selects, in an order the query does not fix
searchRows(query, order) ==
    LET Hit(r) == ilike(r.movie_title, query)
        found == Take(InOrder(SelectSeq(imdb_movies, Hit), order), SearchLimit)
    IN  [i \in DOMAIN found |-> Details(found[i])]

\* what the awaited search resolves to: data (rows), or no data
SearchAnswers(query) == {None} \cup {Some(searchRows(query, order)) : order \in Orders}

\* lines 99-104: .eq("movie_title", title).limit(1).single()
LookupAnswers(title) ==
    {None} \cup {Some(Details(imdb_movies[i])) :
                    i \in {k \in DOMAIN imdb_movies : imdb_movies[k].movie_title = title}}

\* line 112
needsDescription ==
    Len(props.value.title) >= 2 /\ titleFound = Some(FALSE) /\ ~searching

\* line 113
isMatched == titleFound = Some(TRUE) /\ movieDetails # None

RowInit ==
    /\ suggestions = <<>>
    /\ showSuggestions = FALSE
    /\ titleFound = None
    /\ searching = FALSE
    /\ movieDetails = None
    /\ debounceRef = None
    /\ searches = {}
    /\ lookups = {}

\* props.onChange: (v) => updateMovie(i, v) (Index.tsx line 163)
onChange(v) ==
    /\ ratedMovies' = [ratedMovies EXCEPT ![props.index] = v]
    /\ UNCHANGED <<likes, dislikes, matchCount, movies, isLoading, moreLike, lessLike, pending>>
    /\ UNCHANGED serverVars

\* lines 86-92: the timer keeps the query and the searchTitles of this render
handleTitleChange(val) ==
    /\ onChange([props.value EXCEPT !.title = val])
    /\ movieDetails' = None
    /\ titleFound' = None
    /\ debounceRef' = Some([query |-> val, value |-> props.value])
    /\ UNCHANGED <<suggestions, showSuggestions, searching, searches, lookups>>

\* lines 52-64: the timer fires and searchTitles runs until its await
TimerFires ==
    /\ debounceRef # None
    /\ debounceRef' = None
    /\ IF Len(Get(debounceRef).query) < 2
       THEN /\ suggestions' = <<>>
            /\ titleFound' = None
            /\ movieDetails' = None
            /\ UNCHANGED <<searching, searches>>
       ELSE /\ Cardinality(searches) < MaxAwaited
            /\ searching' = TRUE
            /\ searches' = searches \cup {Get(debounceRef)}
            /\ UNCHANGED <<suggestions, titleFound, movieDetails>>
    /\ UNCHANGED <<showSuggestions, lookups>>
    /\ UNCHANGED <<clientVars, serverVars>>

\* lines 66-83: the search s resolves to data
SearchReturn(s, data) ==
    /\ s \in searches
    /\ searches' = searches \ {s}
    /\ LET rows == OrElse(data, <<>>)
           titles == [i \in DOMAIN rows |-> rows[i].movie_title]
           exact == {i \in DOMAIN rows : toLowerCase(rows[i].movie_title) = toLowerCase(s.query)}
           notFound == Len(titles) = 0
       IN  /\ suggestions' = titles
           /\ showSuggestions' = (Len(titles) > 0)
           /\ IF exact # {}
              THEN /\ titleFound' = Some(TRUE)
                   /\ movieDetails' = Some(rows[CHOOSE i \in exact : \A j \in exact : i <= j])
                   /\ onChange([s.value EXCEPT !.description = None])
              ELSE /\ titleFound' = (IF notFound THEN Some(FALSE) ELSE None)
                   /\ movieDetails' = None
                   /\ IF notFound /\ s.value.description = None
                      THEN onChange([s.value EXCEPT !.description = Some(<<>>)])
                      ELSE UNCHANGED <<clientVars, serverVars>>
    /\ searching' = FALSE
    /\ UNCHANGED <<debounceRef, lookups>>

\* line 190
onValueChange(v) ==
    /\ onChange([props.value EXCEPT !.rating = v])
    /\ UNCHANGED rowVars

\* line 241, the textarea being rendered when needsDescription (line 233)
onDescriptionChange(text) ==
    /\ needsDescription
    /\ onChange([props.value EXCEPT !.description = Some(text)])
    /\ UNCHANGED rowVars

\* lines 94-104, from a suggestion on display (lines 163-173)
selectSuggestion(title) ==
    /\ showSuggestions
    /\ title \in Range(suggestions)
    /\ Cardinality(lookups) < MaxAwaited
    /\ onChange([props.value EXCEPT !.title = title, !.description = None])
    /\ showSuggestions' = FALSE
    /\ suggestions' = <<>>
    /\ lookups' = lookups \cup {title}
    /\ UNCHANGED <<titleFound, searching, movieDetails, debounceRef, searches>>

\* lines 106-109: the lookup of title resolves to data
SelectReturn(title, data) ==
    /\ title \in lookups
    /\ lookups' = lookups \ {title}
    /\ IF data # None
       THEN movieDetails' = data /\ titleFound' = Some(TRUE)
       ELSE UNCHANGED <<movieDetails, titleFound>>
    /\ UNCHANGED <<suggestions, showSuggestions, searching, debounceRef, searches>>
    /\ UNCHANGED <<clientVars, serverVars>>

\* line 161
onFocus ==
    /\ Len(suggestions) > 0
    /\ showSuggestions' = TRUE
    /\ UNCHANGED <<suggestions, titleFound, searching, movieDetails, debounceRef, searches,
                   lookups>>
    /\ UNCHANGED <<clientVars, serverVars>>

\* lines 42-50: a mousedown outside the row
mousedownOutside ==
    /\ showSuggestions' = FALSE
    /\ UNCHANGED <<suggestions, titleFound, searching, movieDetails, debounceRef, searches,
                   lookups>>
    /\ UNCHANGED <<clientVars, serverVars>>

----------------------------------------------------------------------------
(* The handler (lines 191-439).                                            *)

\* Deno.env.get(key) is set or not
Envs == [GOOGLE_AI_API_KEY : BOOLEAN, LOVABLE_API_KEY : BOOLEAN]


\* the full-record fetch: an error, or the rows in some order, possibly without the
\* row of the best match
FetchOutcomes(ms) ==
    {[error |-> TRUE, missing |-> {}, order |-> "asc"]}
        \cup {[error |-> FALSE, missing |-> {}, order |-> o] : o \in Orders}
        \cup (IF Len(ms) > 0
              THEN {[error |-> FALSE, missing |-> {ms[1].id}, order |-> "asc"]}
              ELSE {})

Init ==
    /\ pc = "idle"
    /\ env \in Envs
    /\ req = None
    /\ resp = None
    /\ calls = <<>>
    /\ dbMap = <<>>
    /\ ratedTitlesLower = {}
    /\ tasteText = <<>>
    /\ embedding = None
    /\ matches = <<>>
    /\ likedGenres = <<>>
    /\ scored = <<>>
    /\ candidates = <<>>
    /\ embeddingResponse = None
    /\ matchError = None
    /\ moviesError = None
    /\ matchedMovies = <<>>
    /\ llmResponse = None
    /\ PageInit
    /\ RowInit

\* return new Response(JSON.stringify(body), { status })
Respond(status, body) ==
    /\ resp' = Some([status |-> status, body |-> body])
    /\ pc' = "done"
    /\ calls' = calls

\* the catch of lines 432-438
Throw(message) == Respond(500, [error |-> message])

ThrownNever(error) == FALSE

\* lines 304 and 311: if (error) throw error
Thrown(error) == error

\* an external call is issued and the handler awaits it
Await(call, next) ==
    /\ calls' = Append(calls, call)
    /\ pc' = next
    /\ resp' = resp

body == Get(Get(req).body)

\* line 192
Preflight ==
    /\ pc = "idle"
    /\ req' = Some([method |-> "OPTIONS", body |-> None])
    /\ Respond(200, <<>>)
    /\ UNCHANGED <<env, dbMap, ratedTitlesLower, tasteText, embedding, matches,
                   likedGenres, scored, candidates, answers>>
    /\ UNCHANGED <<clientVars, rowVars>>

\* lines 194-216: the body is read and validated, the title lookup is issued
Serve(b) ==
    /\ pc = "idle"
    /\ req' = Some([method |-> "POST", body |-> Some(b)])
    /\ IF b.kind = "unparseable" THEN Throw("Unexpected token in JSON")
       ELSE IF b.kind = "null" THEN Throw("Cannot destructure property 'ratings' of null")
       ELSE IF RatingsRejected(b.ratings) THEN Respond(400, [error |-> "ratings array is required"])
       ELSE IF ~env.GOOGLE_AI_API_KEY THEN Throw("GOOGLE_AI_API_KEY is not configured")
       ELSE Await("title_lookup", "lookup")
    /\ UNCHANGED <<env, dbMap, ratedTitlesLower, tasteText, embedding, matches,
                   likedGenres, scored, candidates, answers>>
    /\ UNCHANGED <<clientVars, rowVars>>

\* lines 213-279: the lookup answers (data is null when it failed), the taste
\* document is built, the embedding is requested
LookupReturn(failed, order) ==
    /\ pc = "lookup"
    /\ LET ratings == body.ratings.items
           titles == {ratings[i].title : i \in DOMAIN ratings}
           map == IF failed THEN <<>> ELSE dbMapOf(LookupTitles(titles, order))
       IN  /\ dbMap' = map
           /\ IF \E i \in DOMAIN ratings : ratings[i].title = None
              THEN /\ Throw("Cannot read properties of undefined (reading 'toLowerCase')")
                   /\ UNCHANGED <<ratedTitlesLower, tasteText>>
              ELSE /\ ratedTitlesLower' = ratedTitlesLowerOf(ratings)
                   /\ tasteText' = tasteTextOf(ratings, map, body.likes, body.dislikes)
                   /\ Await("embedding", "embed")
    /\ UNCHANGED <<env, req, embedding, matches, likedGenres, scored, candidates, answers>>
    /\ UNCHANGED <<clientVars, rowVars>>

\* lines 281-302
EmbedReturn(r) ==
    /\ pc = "embed"
    /\ embeddingResponse' = Some(r)
    /\ IF ~Ok(r.status)
       THEN /\ IF RateLimited(r.status)
               THEN Respond(429, [error |-> "Rate limit exceeded. Please try again later."])
               ELSE Throw("Embedding generation failed")
            /\ UNCHANGED embedding
       ELSE IF r.values = None
       THEN Throw("No embedding returned") /\ UNCHANGED embedding
       ELSE embedding' = r.values /\ Await("match_movies", "rpc")
    /\ UNCHANGED <<env, req, dbMap, ratedTitlesLower, tasteText, matches, likedGenres,
                   scored, candidates, matchError, moviesError, matchedMovies, llmResponse>>
    /\ UNCHANGED <<clientVars, rowVars>>

\* lines 299-311
RpcReturn(error) ==
    /\ pc = "rpc"
    /\ matchError' = Some(error)
    /\ IF Thrown(error)
       THEN Throw("match_movies failed") /\ UNCHANGED matches
       ELSE /\ matches' = match_movies(Get(embedding), RetrievalLimit)
            /\ Await("full_records", "fetch")
    /\ UNCHANGED <<env, req, dbMap, ratedTitlesLower, tasteText, embedding, likedGenres,
                   scored, candidates, embeddingResponse, moviesError, matchedMovies,
                   llmResponse>>
    /\ UNCHANGED <<clientVars, rowVars>>

\* lines 308-396: the records arrive, are scored and selected, the explanations
\* are requested
FetchReturn(r) ==
    /\ pc = "fetch"
    /\ moviesError' = Some(r.error)
    /\ IF Thrown(r.error)
       THEN /\ Throw("full-record fetch failed")
            /\ UNCHANGED <<matchedMovies, likedGenres, scored, candidates>>
       ELSE LET matchIds == {matches[i].id : i \in DOMAIN matches}
                rows == FetchMovies(matchIds, r.missing, r.order)
                liked == likedGenresOf(body.ratings.items, dbMap)
                list == scoredOf(rows, matches, liked, ratedTitlesLower)
            IN  /\ matchedMovies' = rows
                /\ likedGenres' = liked
                /\ scored' = list
                /\ candidates' = candidatesOf(diverseResultsOf(list, matchCountOf(body)))
                /\ IF ~env.LOVABLE_API_KEY
                   THEN Throw("LOVABLE_API_KEY is not configured")
                   ELSE Await("explanations", "llm")
    /\ UNCHANGED <<env, req, dbMap, ratedTitlesLower, tasteText, embedding, matches,
                   embeddingResponse, matchError, llmResponse>>
    /\ UNCHANGED <<clientVars, rowVars>>

\* lines 380-431
LlmReturn(r) ==
    /\ pc = "llm"
    /\ llmResponse' = Some(r)
    /\ IF r.kind = "rejects"
       THEN Throw("error sending request")
       ELSE Respond(200, [recommendations |->
                            recommendationsOf(candidates, explanationMapOf(r))])
    /\ UNCHANGED <<env, req, dbMap, ratedTitlesLower, tasteText, embedding, matches,
                   likedGenres, scored, candidates, embeddingResponse, matchError,
                   moviesError, matchedMovies>>
    /\ UNCHANGED <<clientVars, rowVars>>

\* the invocation is over; nothing of it is kept for the next one
Reset ==
    /\ pc = "done"
    /\ pc' = "idle"
    /\ req' = None
    /\ resp' = None
    /\ calls' = <<>>
    /\ dbMap' = <<>>
    /\ ratedTitlesLower' = {}
    /\ tasteText' = <<>>
    /\ embedding' = None
    /\ matches' = <<>>
    /\ likedGenres' = <<>>
    /\ scored' = <<>>
    /\ candidates' = <<>>
    /\ embeddingResponse' = None
    /\ matchError' = None
    /\ moviesError' = None
    /\ matchedMovies' = <<>>
    /\ llmResponse' = None
    /\ UNCHANGED env
    /\ UNCHANGED <<clientVars, rowVars>>

Next ==
    \/ Preflight
    \/ pc = "idle" /\ \E b \in Bodies : Serve(b)
    \/ \E failed \in BOOLEAN, order \in Orders : LookupReturn(failed, order)
    \/ \E r \in EmbeddingResponses : EmbedReturn(r)
    \/ \E error \in BOOLEAN : RpcReturn(error)
    \/ \E r \in FetchOutcomes(matches) : FetchReturn(r)
    \/ \E r \in LlmResponses(candidates) : LlmReturn(r)
    \/ Reset

Spec == Init /\ [][Next]_vars

\* the page alone, its requests answered by the environment
PageNext ==
    \/ \E index \in 1..MAX_MOVIES, value \in RowValues : updateMovie(index, value)
    \/ \E index \in 1..MAX_MOVIES : removeMovie(index)
    \/ addMovie
    \/ \E value \in TypedTexts : setLikes(value)
    \/ \E value \in TypedTexts : setDislikes(value)
    \/ \E typed \in TypedCounts : setMatchCount(typed)
    \/ handleRecommend
    \/ \E i \in 1..Cardinality(DeliveredIds), type \in {"more", "less"} : handleFeedback(i, type)
    \/ \E k \in 1..2, r \in Deliveries : InvokeReturn(k, r)

PageStart == Init /\ env = [GOOGLE_AI_API_KEY |-> TRUE, LOVABLE_API_KEY |-> TRUE]

PageSpec == PageStart /\ [][PageNext]_vars

\* an awaited invoke settles: its promise resolves or rejects, and the rest of
\* runRecommendation (lines 105-117) then runs
PageFairSpec ==
    PageStart /\ [][PageNext]_vars
        /\ WF_vars(\E k \in 1..2, r \in Deliveries : InvokeReturn(k, r))

\* one row alone: its component at RowIndex, the other row set from outside, the
\* answers to its queries chosen by the environment
RowNext ==
    \/ \E val \in TypedTitles : handleTitleChange(val)
    \/ TimerFires
    \/ \E s \in searches : \E data \in SearchAnswers(s.query) : SearchReturn(s, data)
    \/ \E v \in SliderValues : onValueChange(v)
    \/ \E text \in TypedDescriptions : onDescriptionChange(text)
    \/ \E title \in Range(suggestions) : selectSuggestion(title)
    \/ \E title \in lookups : \E data \in LookupAnswers(title) : SelectReturn(title, data)
    \/ onFocus
    \/ mousedownOutside
    \/ \E other \in RowValues : updateMovie(RowIndex + 1, other)

RowSpec == PageStart /\ [][RowNext]_vars

----------------------------------------------------------------------------
(* Properties.                                                             *)

Answered == pc = "done" /\ IsSome(resp)
status == Get(resp).status
Posted == IsSome(req) /\ Get(req).method = "POST"
\* the body parsed to an object whose fields the handler reads
Parsed == Posted /\ body.kind = "object"
\* a success response: { recommendations: [...] }
Succeeded == Answered /\ Posted /\ status = 200 /\ DOMAIN Get(resp).body = {"recommendations"}
recommendations == Get(resp).body.recommendations
\* an error response: a single { error } field
ErrorBody == DOMAIN Get(resp).body = {"error"}
ratingsOf == body.ratings.items

\* two characters that differ at most in case
SameLetter(c, d) ==
    \/ c = d
    \/ c \in DOMAIN UpperToLower /\ UpperToLower[c] = d
    \/ d \in DOMAIN UpperToLower /\ UpperToLower[d] = c

\* equality of titles, case-insensitively
EqualIgnoringCase(s, t) == Len(s) = Len(t) /\ \A i \in DOMAIN s : SameLetter(s[i], t[i])

\* the first genre of a returned item, or the sentinel
PrimaryCategory(item) == IF item.genres = <<>> THEN "Unknown" ELSE item.genres[1]

\* the place of the candidate with this id in the score-sorted list
PlaceInScored(id) == CHOOSE k \in DOMAIN scored : scored[k].id = id

\* C1: no returned recommendation has a movie_title equal, case-insensitively, to
\* the title of an entry of the request's ratings, resolved or not, whatever its rating.
C1_NoRatedTitleReturned ==
    Succeeded =>
        \A i \in DOMAIN recommendations : \A j \in DOMAIN ratingsOf :
            IsSome(ratingsOf[j].title) =>
                ~EqualIgnoringCase(recommendations[i].movie_title, Get(ratingsOf[j].title))

\* a success with recommendations for which retrieval had returned a movie whose title
\* is that of a rated entry the title lookup did not resolve
C1_Witness ==
    /\ Succeeded
    /\ Len(recommendations) > 0
    /\ \E j \in DOMAIN ratingsOf : \E i \in DOMAIN matches :
          /\ toLowerCase(Get(ratingsOf[j].title)) \notin DOMAIN dbMap
          /\ EqualIgnoringCase(RowOf(matches[i].id).movie_title, Get(ratingsOf[j].title))

\* C2: at most 2 returned items share a primary category (first genre, or "Unknown"
\* without genres), whatever the candidates and the matchCount.
C2_AtMostTwoPerCategory ==
    Succeeded =>
        \A i \in DOMAIN recommendations :
            Cardinality({j \in DOMAIN recommendations :
                PrimaryCategory(recommendations[j]) = PrimaryCategory(recommendations[i])}) <= 2

\* a success in which a candidate was passed over and a lower-scored one returned
C2_Witness ==
    /\ Succeeded
    /\ \E i, j \in DOMAIN scored :
          /\ i < j
          /\ \A k \in DOMAIN recommendations : recommendations[k].id # scored[i].id
          /\ \E k \in DOMAIN recommendations : recommendations[k].id = scored[j].id

\* C3: the number of returned recommendations is at most the requested matchCount
\* (10 when omitted) and at most the retrieval limit of 50, for every matchCount accepted.
C3_AtMostMatchCount ==
    Succeeded =>
        /\ Len(recommendations) <= (IF body.matchCount = None THEN 10 ELSE Get(body.matchCount))
        /\ Len(recommendations) <= 50

\* C4: the returned list is in non-increasing final_score order and is a subsequence
\* of the score-sorted candidate list.
C4_DescendingSubsequence ==
    Succeeded =>
        /\ \A i, j \in DOMAIN recommendations :
              i < j => recommendations[i].final_score >= recommendations[j].final_score
        /\ \A i \in DOMAIN recommendations :
              \E k \in DOMAIN scored : scored[k].id = recommendations[i].id
        /\ \A i, j \in DOMAIN recommendations :
              i < j => PlaceInScored(recommendations[i].id) < PlaceInScored(recommendations[j].id)

\* a success with three items or more whose ids neither ascend nor descend (the
\* order is not the one the records arrived in) and with a candidate passed over
C4_Witness ==
    /\ Succeeded
    /\ Len(recommendations) >= 3
    /\ \E i \in 1..(Len(recommendations) - 1) : recommendations[i].id < recommendations[i + 1].id
    /\ \E i \in 1..(Len(recommendations) - 1) : recommendations[i].id > recommendations[i + 1].id
    /\ \E i \in 1..(Len(recommendations) - 1) :
          recommendations[i].final_score > recommendations[i + 1].final_score
    /\ Len(recommendations) < Len(scored)

\* the genres of an item that are keys of the strongly-liked-genre map, counted as listed
GenreHits(item) ==
    Cardinality({k \in DOMAIN item.genres : item.genres[k] \in DOMAIN likedGenres})

\* C5: final_score = 0.6*similarity + 0.2*((imdb_rating or 5 when null)/10) + 0.2*affinity,
\* affinity = (genres that are keys of the liked-genre map) / (genre count), and 0 when
\* the item has no genres or the map is empty.  With similarity s and imdb_rating r in
\* tenths, hits h of n genres and final_score f in units of 1/(10*One):
\* f/(10*One) = (60*s*n + 2*r*n + 200*h) / (1000*n).
C5_FinalScoreFormula ==
    Succeeded =>
        \A i \in DOMAIN recommendations :
            LET item == recommendations[i]
                s == item.similarity
                r == IF item.imdb_rating = None THEN 50 ELSE Get(item.imdb_rating)
                n == Len(item.genres)
            IN  IF n = 0 \/ DOMAIN likedGenres = {}
                THEN 1000 * item.final_score = 10 * One * (60 * s + 2 * r)
                ELSE 1000 * n * item.final_score
                        = 10 * One * (60 * s * n + 2 * r * n + 200 * GenreHits(item))

\* a success returning an item without imdb_rating, an item rated 0, and an item only
\* part of whose genres are liked
C5_Witness ==
    /\ Succeeded
    /\ \E i \in DOMAIN recommendations : recommendations[i].imdb_rating = None
    /\ \E i \in DOMAIN recommendations : recommendations[i].imdb_rating = Some(0)
    /\ \E i \in DOMAIN recommendations :
          /\ GenreHits(recommendations[i]) > 0
          /\ GenreHits(recommendations[i]) < Len(recommendations[i].genres)

\* C6: affinity always lies in [0,1], and final_score lies in [0,1] whenever
\* similarity, the normalized intrinsic score and affinity each lie in [0,1].
C6_ScoreInUnitInterval ==
    Succeeded =>
        \A i \in DOMAIN recommendations :
            LET item == recommendations[i]
                affinity == affinityOf(item.genres, likedGenres)
                r == IF item.imdb_rating = None THEN 50 ELSE Get(item.imdb_rating)
            IN  /\ 0 <= affinity /\ affinity <= One
                /\ (0 <= item.similarity /\ item.similarity <= 10 /\ 0 <= r /\ r <= 100)
                      => (0 <= item.final_score /\ item.final_score <= 10 * One)

\* a success returning an item of similarity 1 and an item of affinity 1, their
\* intrinsic scores in range
C6_Witness ==
    /\ Succeeded
    /\ \E i \in DOMAIN recommendations :
          /\ recommendations[i].similarity = 10
          /\ recommendations[i].imdb_rating = None
    /\ \E i \in DOMAIN recommendations :
          /\ affinityOf(recommendations[i].genres, likedGenres) = One
          /\ recommendations[i].similarity >= 0
          /\ recommendations[i].imdb_rating # None
          /\ Get(recommendations[i].imdb_rating) <= 100

\* the ratings field is missing, no array, or an empty array
RatingsUnusable == body.ratings.kind \in {"missing", "notArray"} \/ ratingsOf = <<>>

\* C7: a request whose ratings field is missing, not an array or an empty array is
\* answered with status 400 and an {error} body, and no external call is issued for it.
C7_UnusableRatingsRejected ==
    (Parsed /\ RatingsUnusable) =>
        /\ calls = <<>>
        /\ Answered
        /\ status = 400
        /\ ErrorBody

\* an empty ratings array answered with 400 where both API keys are configured
C7_Witness ==
    /\ Parsed
    /\ body.ratings.kind = "array"
    /\ ratingsOf = <<>>
    /\ env.GOOGLE_AI_API_KEY /\ env.LOVABLE_API_KEY
    /\ Answered
    /\ status = 400

\* the request failed upstream of, or apart from, its validation
FailedElsewhere == status \in {429, 500}

\* the title matches no corpus title, case-insensitively
Unresolved(title) ==
    \A k \in DOMAIN imdb_movies : ~EqualIgnoringCase(imdb_movies[k].movie_title, title)

\* the entry has a title, and a description if the title does not resolve
Described(r) ==
    /\ IsSome(r.title)
    /\ Unresolved(Get(r.title)) => r.description \notin {None, Some("")}

\* C8: a request with a rating entry whose rating is outside 1..10 fails with status 400
\* and produces no recommendation list.  Stated of the requests that are valid but for
\* the rating, with leave for a failure that is not about the input (a missing API key,
\* an upstream error).
C8_OutOfRangeRejected ==
    (Answered /\ Parsed /\ body.ratings.kind = "array"
        /\ (\A k \in DOMAIN ratingsOf : Described(ratingsOf[k]))
        /\ \E j \in DOMAIN ratingsOf : ratingsOf[j].rating \notin 1..10)
    => (FailedElsewhere \/ (status = 400 /\ ErrorBody))

\* C9: a request with a rating entry whose title does not resolve against the corpus
\* and whose description is missing or empty fails with status 400 instead of producing
\* recommendations.  Stated of the requests whose ratings are all within 1..10, with the
\* same leave as C8.
C9_UnresolvedWithoutDescriptionRejected ==
    (Answered /\ Parsed /\ body.ratings.kind = "array"
        /\ (\A k \in DOMAIN ratingsOf : ratingsOf[k].rating \in 1..10)
        /\ \E j \in DOMAIN ratingsOf :
              /\ IsSome(ratingsOf[j].title)
              /\ Unresolved(Get(ratingsOf[j].title))
              /\ ratingsOf[j].description \in {None, Some("")})
    => (FailedElsewhere \/ (status = 400 /\ ErrorBody))

\* the body cannot be parsed, or a required field is missing or invalid
Malformed ==
    \/ body.kind \in {"unparseable", "null"}
    \/ RatingsUnusable
    \/ \E j \in DOMAIN ratingsOf : ratingsOf[j].title = None

\* C10: every request with malformed input is answered with status 400; 429 is used
\* only when the embedding call was throttled and 500 only for other failures, and
\* every error response body is a single {error} field.
C10_MalformedIs400 ==
    (Answered /\ Posted) =>
        /\ Malformed => status = 400
        /\ status = 500 => ~Malformed
        /\ status = 429 => calls = <<"title_lookup", "embedding">>
        /\ status # 200 => ErrorBody

\* the embedding call answered, and its answer was the throttling status
Throttled == IsSome(embeddingResponse) /\ Get(embeddingResponse).status = 429
\* the embedding call answered a non-success status, or a success without a vector
EmbeddingFailed ==
    /\ IsSome(embeddingResponse)
    /\ \/ ~Ok(Get(embeddingResponse).status)
       \/ Get(embeddingResponse).values = None
\* nothing after the embedding call was executed
NoRetrieval ==
    /\ calls = <<"title_lookup", "embedding">>
    /\ matchError = None /\ matches = <<>>
    /\ moviesError = None /\ matchedMovies = <<>>
    /\ scored = <<>> /\ candidates = <<>>
    /\ llmResponse = None

\* C11: when the embedding call is throttled (429) the request is answered with
\* status 429 and an {error} body, no retrieval is attempted and no recommendation
\* list is produced; every other embedding failure is answered with 500.
C11_ThrottledIs429 ==
    /\ Throttled => (Answered /\ status = 429 /\ ErrorBody /\ NoRetrieval)
    /\ (EmbeddingFailed /\ ~Throttled) => (Answered /\ status = 500)

C11_Witness == Throttled /\ Answered /\ status = 429

\* the last external call issued is `call`, and the request was answered with an
\* error body
AbortedAt(call) ==
    /\ Answered
    /\ ~Ok(status)
    /\ ErrorBody
    /\ calls # <<>> /\ calls[Len(calls)] = call
    /\ \A i \in 1..(Len(calls) - 1) : calls[i] # call

\* C12: a failed embedding call (non-success or no vector), an error of match_movies
\* or an error of the full-record fetch aborts the pipeline: the response is an
\* error response without recommendations and no later step is executed.
C12_FailureAborts ==
    /\ EmbeddingFailed => (AbortedAt("embedding") /\ NoRetrieval)
    /\ matchError = Some(TRUE) =>
            /\ AbortedAt("match_movies")
            /\ matches = <<>> /\ moviesError = None /\ matchedMovies = <<>>
            /\ scored = <<>> /\ candidates = <<>> /\ llmResponse = None
    /\ moviesError = Some(TRUE) =>
            /\ AbortedAt("full_records")
            /\ matchedMovies = <<>> /\ scored = <<>> /\ candidates = <<>>
            /\ llmResponse = None

C12_Witness == moviesError = Some(TRUE) /\ Answered /\ matches # <<>>

\* the explanation call answered a non-success status, or content that is not an array
\* of {id, explanation} objects (no JSON array, or an array with a null element)
ExplanationsUnusable ==
    /\ IsSome(llmResponse)
    /\ \/ Get(llmResponse).kind \in {"notOk", "malformed"}
       \/ /\ Get(llmResponse).kind = "array"
          /\ \E i \in DOMAIN Get(llmResponse).items : Get(llmResponse).items[i] = None

\* the response lists the candidates, all of them and in their order
FullRankedList ==
    /\ Succeeded
    /\ Len(recommendations) = Len(candidates)
    /\ \A i \in DOMAIN candidates : recommendations[i].id = candidates[i].id

\* C13: when the explanation call answers a non-success status or content that does
\* not parse as an array of {id, explanation}, the response is still a success with
\* the full ranked list and every recommendation has explanation null.
C13_UnusableExplanationsAllNull ==
    ExplanationsUnusable =>
        /\ FullRankedList
        /\ \A i \in DOMAIN recommendations : recommendations[i].explanation = None

\* embedding, match_movies and the full-record fetch all answered without failure
RetrievalSucceeded ==
    /\ IsSome(embeddingResponse) /\ ~EmbeddingFailed
    /\ matchError = Some(FALSE)
    /\ moviesError = Some(FALSE)

\* C14: no failure of the explanation step aborts the pipeline: whenever embedding,
\* retrieval and record fetch succeeded the request is answered with a success
\* response carrying the ranked list, also when the explanation capability is
\* unreachable, throws, or is not configured.
C14_ExplanationNeverAborts ==
    (Answered /\ RetrievalSucceeded) => FullRankedList

\* the ids of the rows the full-record fetch returned
FetchedIds == {matchedMovies[k].id : k \in DOMAIN matchedMovies}
\* a match whose row the full-record fetch did not return
Dropped(j) == j \in DOMAIN matches /\ matches[j].id \notin FetchedIds

\* C15: every returned id was returned by match_movies and is present in the
\* full-record fetch, each returned item's similarity is the similarity match_movies
\* gave that id, and a match absent from the fetch is dropped without an error:
\* it is not scored and the request is still served.
C15_OnlyFetchedMatches ==
    /\ Succeeded =>
          \A i \in DOMAIN recommendations :
              /\ recommendations[i].id \in FetchedIds
              /\ \E j \in DOMAIN matches :
                    /\ matches[j].id = recommendations[i].id
                    /\ matches[j].similarity = recommendations[i].similarity
    /\ (moviesError = Some(FALSE) /\ \E j \in DOMAIN matches : Dropped(j)) =>
          /\ \A j \in DOMAIN matches :
                Dropped(j) => \A i \in DOMAIN scored : scored[i].id # matches[j].id
          /\ (Answered /\ env.LOVABLE_API_KEY /\ Get(llmResponse).kind # "rejects")
                => FullRankedList

C15_Witness ==
    /\ Succeeded
    /\ recommendations # <<>>
    /\ \E j \in DOMAIN matches : Dropped(j)

\* the request is { description, matchCount } without ratings
SingleQueryRequest ==
    /\ Parsed
    /\ IsSome(body.description)
    /\ body.ratings.kind = "missing"
    /\ IsSome(body.matchCount)

\* C19: a request {description, matchCount} with no ratings succeeds and is answered
\* with a {movies} list in descending order of similarity.
C19_SingleQuerySupported ==
    (Answered /\ SingleQueryRequest /\ Get(body.matchCount) >= 1) =>
        /\ status = 200
        /\ DOMAIN Get(resp).body = {"movies"}
        /\ \A i, j \in DOMAIN Get(resp).body.movies :
              i < j => Get(resp).body.movies[i].similarity >= Get(resp).body.movies[j].similarity

\* the scored candidate at place i was admitted to the selection
Admitted(i) == \E k \in DOMAIN candidates : candidates[k].id = scored[i].id
\* the places before i whose candidates were admitted
AdmittedBefore(i) == {j \in 1..(i - 1) : Admitted(j)}

\* C20: the selection is one greedy pass over the candidates in score order: a
\* candidate is admitted exactly when fewer than 2 already-admitted items share its
\* primary category and fewer than matchCount items are admitted; a skipped candidate
\* is never admitted later.
C20_GreedySinglePass ==
    (pc \in {"llm", "done"} /\ moviesError = Some(FALSE)) =>
        \A i \in DOMAIN scored :
            Admitted(i) <=>
                /\ Cardinality({j \in AdmittedBefore(i) :
                        PrimaryCategory(scored[j]) = PrimaryCategory(scored[i])}) < 2
                /\ Cardinality(AdmittedBefore(i)) < matchCountOf(body)

\* the titles that received feedback since the last fresh recommendation
Listed(list) == {list[i].title : i \in DOMAIN list}
\* no title occurs twice in the list
NoRepeat(list) == \A i, j \in DOMAIN list : list[i].title = list[j].title => i = j

\* C17: a delivered item whose title is in the more-like or the less-like list
\* offers no feedback action, and no title occurs more than once across the two
\* feedback lists.
C17_OneFeedbackPerTitle ==
    /\ \A i \in DOMAIN movies :
          movies[i].movie_title \in Listed(moreLike) \cup Listed(lessLike) =>
              /\ ~ENABLED handleFeedback(i, "more")
              /\ ~ENABLED handleFeedback(i, "less")
    /\ NoRepeat(moreLike)
    /\ NoRepeat(lessLike)
    /\ Listed(moreLike) \cap Listed(lessLike) = {}

\* after feedback on both lists, an item with feedback is delivered again next to
\* one without
C17_Witness ==
    /\ ~isLoading
    /\ moreLike # <<>>
    /\ lessLike # <<>>
    /\ \E i \in DOMAIN movies : movies[i].movie_title \in Listed(lessLike)
    /\ \E i \in DOMAIN movies : movies[i].movie_title \in Listed(moreLike)

RECURSIVE GenresText(_)
\* "genre1, genre2"
GenresText(genres) ==
    IF genres = <<>> THEN <<>>
    ELSE IF Len(genres) = 1 THEN <<genres[1]>>
    ELSE GenresText(SubSeq(genres, 1, Len(genres) - 1)) \o <<",", " ", genres[Len(genres)]>>

\* "title (genre1, genre2)"
MarkerText(f) == f.title \o <<" ", "(">> \o GenresText(f.genres) \o <<")">>

RECURSIVE MarkersText(_)
\* the markers of the list, each rendered, "; " between them
MarkersText(list) ==
    IF list = <<>> THEN <<>>
    ELSE IF Len(list) = 1 THEN MarkerText(list[1])
    ELSE MarkersText(SubSeq(list, 1, Len(list) - 1)) \o <<";", " ">> \o MarkerText(list[Len(list)])

\* the field of the payload is the user's own text, trimmed, followed by the markers
\* of the list; it is absent when both are empty
Carries(field, own, list) ==
    LET expected == IF list = <<>> THEN trim(own)
                    ELSE IF trim(own) = <<>> THEN MarkersText(list)
                    ELSE trim(own) \o <<".", " ">> \o MarkersText(list)
    IN  field = IF expected = <<>> THEN None ELSE Some(expected)

\* a step that adds one marker to the feedback lists
FeedbackGiven ==
    \/ /\ Len(moreLike') = Len(moreLike) + 1
       /\ SubSeq(moreLike', 1, Len(moreLike)) = moreLike
       /\ lessLike' = lessLike
    \/ /\ Len(lessLike') = Len(lessLike) + 1
       /\ SubSeq(lessLike', 1, Len(lessLike)) = lessLike
       /\ moreLike' = moreLike

\* C18: the request a feedback action sends carries every marker given since the last
\* fresh recommendation, the one just added included: likes holds the user's own text
\* followed by the more-like markers as "title (genre1, genre2)" joined by "; ", and
\* dislikes the same for the less-like markers.
C18_FeedbackRequestCarriesMarkers ==
    [][FeedbackGiven =>
          /\ Len(pending') = Len(pending) + 1
          /\ Carries(pending'[Len(pending')].likes, likes, moreLike')
          /\ Carries(pending'[Len(pending')].dislikes, dislikes, lessLike')]_vars

\* a feedback request with the user's own likes text and two more-like markers
C18_Witness ==
    /\ pending # <<>>
    /\ Len(moreLike) = 2
    /\ IsSome(pending[1].likes)
    /\ SubSeq(Get(pending[1].likes), 1, 4) = <<"n", "o", "i", "r">>
    /\ \E k \in DOMAIN Get(pending[1].likes) : Get(pending[1].likes)[k] = ";"

\* the sections of the taste document under this heading
SectionsUnder(heading) == {i \in DOMAIN tasteText : tasteText[i].heading = heading}
\* the ratings of the lines under this heading, in order; none without the heading
RatingsUnder(heading) ==
    IF SectionsUnder(heading) = {} THEN <<>>
    ELSE LET lines == tasteText[CHOOSE i \in SectionsUnder(heading) : TRUE].lines
         IN  [k \in DOMAIN lines |-> lines[k].rating]
\* the ratings of the request from lo to hi, in order
RatedWithin(lo, hi) ==
    LET In(r) == r.rating >= lo /\ r.rating <= hi
        rs == SelectSeq(ratingsOf, In)
    IN  [k \in DOMAIN rs |-> rs[k].rating]
\* the heading is in the document once when its bucket has lines, and not otherwise
HeadedIfAny(heading, lo, hi) ==
    /\ Cardinality(SectionsUnder(heading)) = (IF RatedWithin(lo, hi) = <<>> THEN 0 ELSE 1)
    /\ RatingsUnder(heading) = RatedWithin(lo, hi)

\* C21: every rated input has exactly one line in exactly one bucket of the taste
\* document: strong-like for rating >= 8, neutral for 5..7, dislike for <= 4; a
\* bucket heading is in the document only when its bucket has lines, and MORE OF
\* THIS / LESS OF THIS only when likes / dislikes are not empty.
C21_OneLinePerRating ==
    tasteText # <<>> =>
        /\ HeadedIfAny("STRONG LIKES (rating >= 8):", 8, 100)
        /\ HeadedIfAny("NEUTRAL (rating 5-7):", 5, 7)
        /\ HeadedIfAny("DISLIKES (rating <= 4):", -100, 4)
        /\ Len(RatingsUnder("STRONG LIKES (rating >= 8):"))
             + Len(RatingsUnder("NEUTRAL (rating 5-7):"))
             + Len(RatingsUnder("DISLIKES (rating <= 4):")) = Len(ratingsOf)
        /\ SectionsUnder("MORE OF THIS:") # {}
             <=> (IsSome(body.likes) /\ Get(body.likes) # "")
        /\ SectionsUnder("LESS OF THIS:") # {}
             <=> (IsSome(body.dislikes) /\ Get(body.dislikes) # "")
        /\ \A i \in DOMAIN tasteText :
              tasteText[i].heading \in {"MORE OF THIS:", "LESS OF THIS:"}
                  => tasteText[i].lines = <<>>

\* a document with two buckets, one of them holding a rating of exactly 8, with an
\* empty likes text and a dislikes text
C21_Witness ==
    /\ tasteText # <<>>
    /\ Len(ratingsOf) = 2
    /\ RatingsUnder("STRONG LIKES (rating >= 8):") = <<8>>
    /\ Len(RatingsUnder("NEUTRAL (rating 5-7):")) = 1
    /\ body.likes = Some("")
    /\ SectionsUnder("LESS OF THIS:") # {}

\* the corpus movie the j-th rating resolved to, if it did
ResolvedBy(j) ==
    IF IsSome(ratingsOf[j].title) /\ toLowerCase(Get(ratingsOf[j].title)) \in DOMAIN dbMap
    THEN Some(dbMap[toLowerCase(Get(ratingsOf[j].title))])
    ELSE None
\* the ratings of 8 or more that resolved to a movie having the genre
StrongLikesOf(g) ==
    {j \in DOMAIN ratingsOf :
        /\ ratingsOf[j].rating >= 8
        /\ IsSome(ResolvedBy(j))
        /\ g \in Range(Get(ResolvedBy(j)).genres)}
\* every genre of the corpus, and every key of the map
GenresKnown ==
    UNION {Range(imdb_movies[i].genres) : i \in DOMAIN imdb_movies} \cup DOMAIN likedGenres

\* C22: the liked-genre map has a genre exactly when some input rated 8 or more
\* resolved to a corpus movie having that genre, and maps it to the greatest such
\* rating; inputs rated below 8 and unresolved titles add nothing.
C22_LikedGenresOfStrongLikes ==
    moviesError = Some(FALSE) =>
        \A g \in GenresKnown :
            /\ g \in DOMAIN likedGenres <=> StrongLikesOf(g) # {}
            /\ g \in DOMAIN likedGenres =>
                  /\ \E j \in StrongLikesOf(g) : likedGenres[g] = ratingsOf[j].rating
                  /\ \A j \in StrongLikesOf(g) : likedGenres[g] >= ratingsOf[j].rating

\* two strong likes of different ratings resolved to movies sharing a genre, the
\* higher one first
C22_Witness ==
    /\ moviesError = Some(FALSE)
    /\ \E g \in DOMAIN likedGenres :
          /\ StrongLikesOf(g) = {1, 2}
          /\ ratingsOf[1].rating > ratingsOf[2].rating

----------------------------------------------------------------------------
(* The input form: one row's searches and the submit button.               *)

\* the title equals a corpus title, letter case aside
InCorpus(t) == \E r \in Range(imdb_movies) : toLowerCase(r.movie_title) = toLowerCase(t)

\* the row carries a description that is more than blanks
HasDescription(m) == m.description # None /\ trim(Get(m.description)) # <<>>

\* C23: whenever submission is enabled, each row whose title equals no corpus title
\* (letter case aside) has a description that is present and not empty.
C23_SubmittableRowsResolved ==
    canSubmit => \A i \in DOMAIN ratedMovies :
                    ~InCorpus(ratedMovies[i].title) => HasDescription(ratedMovies[i])

\* a step in which an awaited title search of the row completes
SearchCompletes == \E s \in searches : \E data \in SearchAnswers(s.query) : SearchReturn(s, data)

\* C24: the completion of a title search leaves the row's title and rating as the
\* user entered them; it may change the description only.
C24_SearchKeepsTitleAndRating ==
    [][SearchCompletes =>
        /\ ratedMovies'[RowIndex].title = ratedMovies[RowIndex].title
        /\ ratedMovies'[RowIndex].rating = ratedMovies[RowIndex].rating]_vars

\* C25: whenever the row shows "Found", the movie it shows has the row's current
\* title, letter case aside.
C25_FoundIsCurrentTitle ==
    isMatched => toLowerCase(Get(movieDetails).movie_title) = toLowerCase(props.value.title)

----------------------------------------------------------------------------
(* The page: requests in flight.                                           *)

\* no button of the page can start a request
NoRequestCanStart ==
    /\ ~ENABLED handleRecommend
    /\ \A i \in 1..Cardinality(DeliveredIds), type \in {"more", "less"} :
          ~ENABLED handleFeedback(i, type)

\* C26: at most one recommendation request is in flight: the page is loading exactly
\* while a request awaits its answer, and while it is loading neither Get
\* Recommendations nor a feedback button can start another request, so the answer
\* displayed is that of the request started last.
C26_OneRequestInFlight ==
    /\ Len(pending) <= 1
    /\ isLoading <=> pending # <<>>
    /\ isLoading => NoRequestCanStart

\* a request started by a feedback button is awaited while the form could be submitted
C26_Witness ==
    isLoading /\ Len(pending) = 1 /\ canSubmit /\ moreLike # <<>>

\* a step in which an awaited request fails: error, data.error or a throw
RequestFails == \E k \in DOMAIN pending, r \in Deliveries : r.kind = "error" /\ InvokeReturn(k, r)

\* C27: every request started leaves the loading state: once its invoke settles,
\* with data, with an error or with a throw, isLoading is false again; and after a
\* failure the list displayed is empty, not the list of an earlier request.
C27_LoadingEnds ==
    /\ isLoading ~> ~isLoading
    /\ [][RequestFails => ~isLoading' /\ movies' = <<>>]_vars

\* after feedback on a delivered movie the page is idle again with nothing displayed
C27_Witness ==
    ~isLoading /\ pending = <<>> /\ movies = <<>> /\ lessLike # <<>>
====
